---- MODULE Spec2Model ----
(***************************************************************************)
(* A model of rspass-core: the encrypted credential store (src/src/lib.rs), *)
(* the git ledger and its synchronisation (src/src/git.rs), the key         *)
(* artifacts (src/src/pgp.rs) and the directory overrides                   *)
(* (src/src/config.rs).                                                     *)
(*                                                                          *)
(* Text is modelled as sequences of one-character strings, so that          *)
(* str::lines and splitn are computed the way the code computes them.       *)
(* Credential names are sequences of path components.  A call that panics   *)
(* ends with result "panic" and leaves on disk whatever the handler had     *)
(* written up to that point.  The filesystem grants every right, so the     *)
(* PermissionDenied branches are not taken.                                 *)
(***************************************************************************)
EXTENDS Naturals, Sequences, FiniteSets, TLC

VARIABLES
    repo,       \* a git repository exists at the repository root
    keys,       \* the config directory and its three key artifacts
    files,      \* working tree: name -> file content, or NoFile
    dirs,       \* working tree: the sub-directories that exist
    index,      \* the persisted git index: name -> staged blob, or NoFile
    conflicts,  \* paths the index holds as unresolved merge conflicts
    objs,       \* the commits known anywhere, in creation order
    head,       \* refs/heads/master of the local repository (0: unborn)
    origin,     \* the URI registered for remote "origin", or NoRemote
    remoteTip,  \* refs/heads/master on the remote (0: none)
    tracking,   \* refs/remotes/origin/master in the local repository
    last,       \* the last public call: its arguments and what it returned
    homeDir,    \* the HOME_DIR cell of config.rs: empty, or the value it holds
    configDir,  \* the CONFIG_DIR cell of config.rs
    dirsFeature,\* whether the crate is built with its "dirs" feature
    setCalls    \* the overrides a setter has been called for so far

cfgvars == <<homeDir, configDir, dirsFeature, setCalls>>
vars == <<repo, keys, files, dirs, index, conflicts, objs, head, origin,
          remoteTip, tracking, last, homeDir, configDir, dirsFeature, setCalls>>

-----------------------------------------------------------------------------
(* Bounds *)

MaxCommits == 3

-----------------------------------------------------------------------------
(* Values *)

\* file contents are records, so that absent, empty and sealed compare
NoFile == [pt |-> <<>>, key |-> "-absent-", rnd |-> 0]
EmptyFile == [pt |-> <<>>, key |-> "-empty-", rnd |-> 0]
NoKey == "NoKey"
NoRemote == "NoRemote"
\* Option<T>
Some(v) == [some |-> TRUE, v |-> v]
None == [some |-> FALSE, v |-> <<>>]
NL == "\n"
EQ == "="
Root == <<>>

\* Key size handed to the key builder; an RSA/PKCS#1 v1.5 block seals at most
\* KeyBits/8 - 11 bytes.
KeyBits == 2048
MaxPlain == (KeyBits \div 8) - 11

Names == { <<"a">>, <<"b">>, <<"a", "c">>, <<"b", "c">> }
Parent(p) == SubSeq(p, 1, Len(p) - 1)
DirNames == { Parent(n) : n \in Names } \ { Root }

RECURSIVE Join(_)
Join(p) == IF Len(p) = 1 THEN p[1] ELSE p[1] \o "/" \o Join(Tail(p))
\* format!("{:?}", name) of a name without characters to escape
DebugFmt(name) == "\"" \o Join(name) \o "\""

-----------------------------------------------------------------------------
(* Text: str::lines, splitn(2, '='), the payload wire format *)

RECURSIVE SplitOn(_, _)
\* the pieces of s between occurrences of c (always at least one piece)
SplitOn(s, c) ==
    IF \A i \in 1..Len(s) : s[i] # c THEN << s >>
    ELSE LET i == CHOOSE i \in 1..Len(s) :
                     s[i] = c /\ \A j \in 1..(i-1) : s[j] # c
         IN << SubSeq(s, 1, i - 1) >> \o SplitOn(SubSeq(s, i + 1, Len(s)), c)

\* str::lines(): split at '\n'; a final empty piece is not a line
Lines(s) ==
    LET p == SplitOn(s, NL)
    IN IF p[Len(p)] = <<>> THEN SubSeq(p, 1, Len(p) - 1) ELSE p

\* the unwrap of lines().next(): defined only when HasFirstLine
HasFirstLine(s) == Lines(s) # <<>>
FirstLine(s) == Lines(s)[1]

\* line.splitn(2, '='): <<key, value>> when the line holds '=', else <<key>>
SplitN2(line) ==
    IF \A i \in 1..Len(line) : line[i] # EQ THEN << line >>
    ELSE LET i == CHOOSE i \in 1..Len(line) :
                     line[i] = EQ /\ \A j \in 1..(i-1) : line[j] # EQ
         IN << SubSeq(line, 1, i - 1), SubSeq(line, i + 1, Len(line)) >>

Put(m, k, v) == [x \in (DOMAIN m) \cup {k} |-> IF x = k THEN v ELSE m[x]]
\* the removal forgotten: the key stays in the map
DelNothing(m, k) == m
Del(m, k) == [x \in (DOMAIN m) \ {k} |-> m[x]]
EmptyMap == [x \in {} |-> <<>>]

RECURSIVE CollectPairs(_, _)
\* filter_map over the lines, collected into a HashMap: a line without '=' is
\* dropped, a later pair with the same key overwrites an earlier one
CollectPairs(ls, m) ==
    IF ls = <<>> THEN m
    ELSE LET sp == SplitN2(Head(ls))
         IN CollectPairs(Tail(ls),
                         IF Len(sp) = 2 THEN Put(m, sp[1], sp[2]) ELSE m)

\* edit_credential parses every line of the payload, the first included
ParseData(credential) == CollectPairs(Lines(credential), EmptyMap)

RECURSIVE ApplyChanges(_, _)
\* Some(value) inserts or overwrites, None removes
ApplyChanges(m, changes) ==
    IF changes = <<>> THEN m
    ELSE LET c == Head(changes)
         IN ApplyChanges(IF c[2].some THEN Put(m, c[1], c[2].v)
                                           ELSE Del(m, c[1]),
                         Tail(changes))

\* the line break forgotten: the pair is glued to what precedes it
MetaLineUnbroken(k, v) == k \o << EQ >> \o v
MetaLine(k, v) == << NL >> \o k \o << EQ >> \o v

RECURSIVE PushPairs(_, _)
\* push "\n{key}={value}" for every pair, in the order given
PushPairs(data, pairs) ==
    IF pairs = <<>> THEN data
    ELSE PushPairs(data \o MetaLine(Head(pairs)[1], Head(pairs)[2]), Tail(pairs))

\* insert_credential: the secret, then one line per metadata pair
InsertPayload(secret, metadata) ==
    PushPairs(secret, IF metadata.some THEN metadata.v ELSE <<>>)

\* the orders in which a HashMap may be iterated
Orders(m) ==
    { o \in [1..Cardinality(DOMAIN m) -> DOMAIN m] :
        \A i, j \in DOMAIN o : o[i] = o[j] => i = j }

-----------------------------------------------------------------------------
(* Keys and the envelope *)

NoKeys == [dir |-> FALSE, pub |-> NoKey, key |-> NoKey, pem |-> NoKey]

\* A sealed payload: the plaintext, the key pair it was sealed for and the
\* random padding, of which the model keeps one bit: a block written over
\* another differs from it.  Every block is KeyBits/8 bytes long.
Cipher(pt, k, rnd) == [pt |-> pt, key |-> k, rnd |-> rnd]
FreshPadding(old) == IF old = NoFile \/ old = EmptyFile THEN 0 ELSE 1 - old.rnd
IsCipher(b) == b # NoFile /\ b # EmptyFile
\* a seal whose length follows the length of the plaintext
SizeOfPlaintext(b) == Len(b.pt)
Size(b) == IF b = EmptyFile THEN 0 ELSE KeyBits \div 8

\* pgp::encrypt: the RSA seal is unwrapped, so an over-long payload panics
CanEncrypt(pt) == Len(pt) <= MaxPlain

\* recover_rsa_pub_key / recover_private_key: NotInitialized when the
\* artifact is missing
HasRsaPubKey(k) == k.pem # NoKey
HasPrivateKey(k) == k.key # NoKey

\* decrypt(bytes, passphrase, private key): the passphrase must unlock the
\* private key and the block must have been sealed for that key
CanDecrypt(b, pass, k) == IsCipher(b) /\ b.key = k.key /\ pass = k.key

\* write_all from offset 0 of a file opened without truncation
Overwrite(old, new) ==
    IF Size(old) > Size(new) THEN [new EXCEPT !.key = "-stale tail-"] ELSE new

-----------------------------------------------------------------------------
(* The working tree *)

NoTree == [n \in Names |-> NoFile]
IsFile(st, p) == p \in Names /\ st.files[p] # NoFile
IsDir(st, p) == p = Root \/ p \in st.dirs
IsPrefix(p, q) == Len(p) < Len(q) /\ SubSeq(q, 1, Len(p)) = p
\* a proper ancestor of p is a regular file: the kernel answers ENOTDIR
UnderFile(st, p) == \E q \in Names : IsPrefix(q, p) /\ st.files[q] # NoFile
\* File::create in place of File::create_new: only a directory is in the way
ExistsAsDirectory(st, p) == IsDir(st, p)
\* what File::create_new finds in its way
Exists(st, p) == IsFile(st, p) \/ IsDir(st, p)
Entries(tree) == { n \in Names : tree[n] # NoFile }

RECURSIVE CreateDirAll(_, _)
\* std::fs::create_dir_all: [err, dirs]; mkdir on a regular file answers
\* AlreadyExists, below a regular file NotADirectory
CreateDirAll(st, p) ==
    IF IsDir(st, p) THEN [err |-> "Ok", dirs |-> st.dirs]
    ELSE IF IsFile(st, p) THEN [err |-> "AlreadyExists", dirs |-> st.dirs]
    ELSE IF UnderFile(st, p) THEN [err |-> "NotADirectory", dirs |-> st.dirs]
    ELSE LET up == CreateDirAll(st, Parent(p))
         IN [err |-> up.err,
             dirs |-> IF up.err = "Ok" THEN up.dirs \cup {p} ELSE up.dirs]

\* the error of opening an existing credential file, "Ok" when it opens
OpenError(st, p, write_mode) ==
    IF UnderFile(st, p) THEN "NotADirectory"
    ELSE IF IsDir(st, p) THEN (IF write_mode THEN "IsADirectory" ELSE "Ok")
    ELSE IF ~IsFile(st, p) THEN "NotFound"
    ELSE "Ok"

-----------------------------------------------------------------------------
(* The ledger *)

Tree(st, c) == IF c = 0 THEN NoTree ELSE st.objs[c].tree

RECURSIVE IsAncestor(_, _, _)
\* commit a is c or is reached from c through parents
IsAncestor(commits, a, c) ==
    IF c = 0 THEN FALSE
    ELSE IF a = c THEN TRUE
    ELSE IsAncestor(commits, a, commits[c].parent)

\* index.add_path: the file must be a regular file of the working tree; the
\* entry replaces what the index holds at the path and at every path that
\* collides with it as file against directory
CanAddPath(st, p) == IsFile(st, p) /\ ~UnderFile(st, p)
AddPath(idx, p, blob) ==
    [n \in Names |-> IF n = p THEN blob
                     ELSE IF IsPrefix(p, n) \/ IsPrefix(n, p) THEN NoFile
                     ELSE idx[n]]
\* the removal not staged: the entry stays in the index
RemovePathKeeps(idx, p) == idx
\* index.remove_path: a path the index does not hold is not an error
RemovePath(idx, p) == [idx EXCEPT ![p] = NoFile]

RECURSIVE StageAdds(_, _, _)
StageAdds(st, idx, adds) ==
    IF adds = <<>> THEN idx
    ELSE StageAdds(st, AddPath(idx, Head(adds), st.files[Head(adds)]), Tail(adds))

RECURSIVE StageRemovals(_, _)
StageRemovals(idx, rems) ==
    IF rems = <<>> THEN idx
    ELSE StageRemovals(RemovePath(idx, Head(rems)), Tail(rems))

SeqSet(s) == { s[i] : i \in DOMAIN s }

\* repo.commit with an empty parent list: every commit a root commit
NewRootCommit(message, parent_commit, tree) ==
    [msg |-> message, parent |-> 0, tree |-> tree]

NewCommit(message, parent_commit, tree) ==
    [msg |-> message, parent |-> parent_commit, tree |-> tree]

\* commit_changes: stage, persist the index, write the tree, commit on HEAD.
\* Every failing step but the first is unwrapped.
CommitChanges(st, additions, removals, message) ==
    IF \E i \in DOMAIN additions : ~CanAddPath(st, additions[i])
    THEN [res |-> "panic", st |-> st]
    ELSE
    LET idx == StageRemovals(StageAdds(st, st.index, additions), removals)
        left == st.conflicts \ (SeqSet(additions) \cup SeqSet(removals))
        staged == [st EXCEPT !.index = idx, !.conflicts = left]
    IN IF left # {}
       THEN [res |-> "panic", st |-> staged]
       ELSE [res |-> "Ok",
             st |-> [staged EXCEPT
                        !.objs = Append(st.objs, NewCommit(message, st.head, idx)),
                        !.head = Len(st.objs) + 1]]

-----------------------------------------------------------------------------
(* The credential store: each operation as the result it returns and the    *)
(* store it leaves, from the store st it finds                              *)

Out(res, out, st) == [res |-> res, out |-> out, st |-> st]
NoOut == <<>>

\* insert_credential(name, password, metadata)
InsertCredential(st, name, secret, metadata) ==
    IF ~st.repo THEN Out("NotInitialized", NoOut, st)
    ELSE
    LET mk == CreateDirAll(st, Parent(name))
        st1 == [st EXCEPT !.dirs = mk.dirs]
    IN IF mk.err = "AlreadyExists" THEN Out("AlreadyExists", NoOut, st1)
       ELSE IF mk.err # "Ok" THEN Out("panic", NoOut, st1)
       ELSE IF ~HasRsaPubKey(st.keys) THEN Out("NotInitialized", NoOut, st1)
       ELSE IF Exists(st1, name) THEN Out("AlreadyExists", NoOut, st1)
       ELSE
       LET file_data == InsertPayload(secret, metadata)
           st2 == [st1 EXCEPT !.files[name] = EmptyFile]
       IN IF ~CanEncrypt(file_data) THEN Out("panic", NoOut, st2)
          ELSE
          LET st3 == [st2 EXCEPT !.files[name] = Cipher(file_data, st.keys.pem,
                                                          FreshPadding(st.files[name]))]
              c == CommitChanges(st3, << name >>, <<>>, "add " \o DebugFmt(name))
          IN Out(c.res, NoOut, c.st)

\* get_credential(name, password, full)
GetCredential(st, name, password, full) ==
    IF ~HasPrivateKey(st.keys) THEN Out("NotInitialized", NoOut, st)
    ELSE
    LET err == OpenError(st, name, FALSE)
    IN IF err = "NotFound" THEN Out("NotFound", NoOut, st)
       ELSE IF err # "Ok" \/ IsDir(st, name) THEN Out("panic", NoOut, st)
       ELSE IF ~CanDecrypt(st.files[name], password, st.keys)
            THEN Out("DecryptationError", NoOut, st)
       ELSE
       LET credentials == st.files[name].pt
       IN IF full THEN Out("Ok", credentials, st)
          ELSE IF HasFirstLine(credentials)
               THEN Out("Ok", FirstLine(credentials), st)
               ELSE Out("panic", NoOut, st)

\* the payloads edit_credential may write: the secret line, then the pairs in
\* the order the map happens to be iterated
EditPayloads(credential, password, metadata) ==
    LET first == IF password.some THEN password.v ELSE FirstLine(credential)
        data == ApplyChanges(ParseData(credential),
                             IF metadata.some THEN metadata.v ELSE <<>>)
    IN { PushPairs(first, [i \in DOMAIN o |-> << o[i], data[o[i]] >>]) :
           o \in Orders(data) }

\* edit_credential(name, gpg_password, password, metadata), writing new_credential
EditCredential(st, name, gpg_password, password, metadata, new_credential) ==
    LET err == OpenError(st, name, TRUE)
    IN IF err = "NotFound" THEN Out("NotFound", NoOut, st)
       ELSE IF err # "Ok" THEN Out("panic", NoOut, st)
       ELSE IF ~HasRsaPubKey(st.keys) \/ ~HasPrivateKey(st.keys)
            THEN Out("NotInitialized", NoOut, st)
       ELSE IF ~CanDecrypt(st.files[name], gpg_password, st.keys)
            THEN Out("DecryptationError", NoOut, st)
       ELSE IF ~password.some /\ ~HasFirstLine(st.files[name].pt)
            THEN Out("panic", NoOut, st)
       ELSE IF ~CanEncrypt(new_credential) THEN Out("panic", NoOut, st)
       ELSE
       LET written == Overwrite(st.files[name],
                             Cipher(new_credential, st.keys.pem,
                                    FreshPadding(st.files[name])))
           st1 == [st EXCEPT !.files[name] = written]
       IN IF ~st.repo THEN Out("NotInitialized", NoOut, st1)
          ELSE LET c == CommitChanges(st1, << name >>, <<>>,
                                      "update " \o DebugFmt(name))
               IN Out(c.res, NoOut, c.st)

\* remove_credential(name)
RemoveCredential(st, name) ==
    IF UnderFile(st, name) \/ IsDir(st, name) THEN Out("panic", NoOut, st)
    ELSE IF ~IsFile(st, name) THEN Out("NotFound", NoOut, st)
    ELSE
    LET st1 == [st EXCEPT !.files[name] = NoFile]
    IN IF ~st.repo THEN Out("NotInitialized", NoOut, st1)
       ELSE LET c == CommitChanges(st1, <<>>, << name >>,
                                   "remove " \o DebugFmt(name))
            IN Out(c.res, NoOut, c.st)

\* the name a path below directory from takes when from is renamed to to
Rebase(n, from, to) == to \o SubSeq(n, Len(from) + 1, Len(n))
DirIsEmpty(st, d) ==
    /\ \A n \in Names : ~(IsPrefix(d, n) /\ st.files[n] # NoFile)
    /\ \A e \in st.dirs : ~IsPrefix(d, e)

\* std::fs::rename(target, destination): [err, files, dirs]
Rename(st, target, destination) ==
    LET same == [err |-> "Ok", files |-> st.files, dirs |-> st.dirs]
        fail(e) == [err |-> e, files |-> st.files, dirs |-> st.dirs]
    IN IF UnderFile(st, target) THEN fail("NotADirectory")
       ELSE IF IsFile(st, target) THEN
            IF IsDir(st, destination) THEN fail("IsADirectory")
            ELSE IF target = destination THEN same
            ELSE [err |-> "Ok",
                  files |-> [st.files EXCEPT ![destination] = st.files[target],
                                             ![target] = NoFile],
                  dirs |-> st.dirs]
       ELSE IF target \in st.dirs THEN
            IF IsFile(st, destination) THEN fail("NotADirectory")
            ELSE IF target = destination THEN same
            ELSE IF IsPrefix(target, destination) THEN fail("InvalidInput")
            ELSE IF IsDir(st, destination) /\ ~DirIsEmpty(st, destination)
                 THEN fail("DirectoryNotEmpty")
            ELSE [err |-> "Ok",
                  files |-> [n \in Names |->
                               IF IsPrefix(target, n) THEN NoFile
                               ELSE IF IsPrefix(destination, n)
                                    THEN (IF Rebase(n, destination, target) \in Names
                                          THEN st.files[Rebase(n, destination, target)]
                                          ELSE NoFile)
                                    ELSE st.files[n]],
                  dirs |-> { e \in st.dirs : e # target /\ ~IsPrefix(target, e) }
                           \cup { destination }
                           \cup { Rebase(e, target, destination) :
                                    e \in { x \in st.dirs : IsPrefix(target, x) } }]
       ELSE fail("NotFound")

\* move_credential(target, destination)
MoveCredential(st, target, destination) ==
    LET mk == CreateDirAll(st, Parent(destination))
        st1 == [st EXCEPT !.dirs = mk.dirs]
    IN IF mk.err = "AlreadyExists" THEN Out("AlreadyExists", NoOut, st1)
       ELSE IF mk.err # "Ok" THEN Out("panic", NoOut, st1)
       ELSE
       LET mv == Rename(st1, target, destination)
           st2 == [st1 EXCEPT !.files = mv.files, !.dirs = mv.dirs]
       IN IF mv.err = "NotFound" THEN Out("NotFound", NoOut, st1)
          ELSE IF mv.err # "Ok" THEN Out("panic", NoOut, st1)
          ELSE IF ~st.repo THEN Out("NotInitialized", NoOut, st2)
          ELSE LET c == CommitChanges(st2, << destination >>, << target >>,
                           "move " \o Join(target) \o " to " \o Join(destination))
               IN Out(c.res, NoOut, c.st)

-----------------------------------------------------------------------------
(* Synchronisation *)

RECURSIVE MergeBase(_, _, _)
\* the nearest commit reached from a that is also reached from b (0: none)
MergeBase(commits, a, b) ==
    IF a = 0 THEN 0
    ELSE IF IsAncestor(commits, a, b) THEN a
    ELSE MergeBase(commits, commits[a].parent, b)

\* the parent directories the files of a tree need
DirsOf(tree) == { d \in DirNames : \E n \in Names : IsPrefix(d, n) /\ tree[n] # NoFile }

\* checkout_head with force, HEAD already moved to the target tree: every
\* entry of the tree is written; a file that is not an entry is removed when
\* the index tracks it or when it stands in the way of an entry, and kept
\* otherwise (untracked files are not removed); directories emptied by the
\* removals are removed with them
CheckoutForce(st, tree) ==
    LET blocks(n) == \E m \in Names :
                        tree[m] # NoFile /\ (IsPrefix(n, m) \/ IsPrefix(m, n))
        tracked(n) == st.index[n] # NoFile \/ n \in st.conflicts
        newfiles == [n \in Names |->
                        IF tree[n] # NoFile THEN tree[n]
                        ELSE IF tracked(n) \/ blocks(n) THEN NoFile
                        ELSE st.files[n]]
        removed == { n \in Names : st.files[n] # NoFile /\ newfiles[n] = NoFile }
        emptied == { d \in st.dirs :
                        /\ \E n \in removed : IsPrefix(d, n)
                        /\ \A n \in Names : IsPrefix(d, n) => newfiles[n] = NoFile }
    IN [st EXCEPT !.files = newfiles,
                  !.dirs = ((st.dirs \ emptied) \cup DirsOf(tree)) \ Entries(tree),
                  !.index = tree,
                  !.conflicts = {}]

\* one path of a three-way merge: the side that changed wins, both sides
\* changing differently is a conflict
MergedBlob(b, ours, theirs) ==
    IF ours = theirs THEN ours ELSE IF ours = b THEN theirs ELSE ours
MergeConflicts(base, ours, theirs) ==
    { n \in Names : ours[n] # theirs[n] /\ ours[n] # base[n] /\ theirs[n] # base[n] }

\* repo.merge of the fetched tip into HEAD: refused (an error) when a path the
\* merge changes is dirty in the index or the working tree, or cannot be
\* written; else the merged paths are written and staged, conflicts are left
\* in the index, and no commit is made
Merge(st, their) ==
    LET b == Tree(st, MergeBase(st.objs, st.head, their))
        ours == Tree(st, st.head)
        theirs == Tree(st, their)
        bad == MergeConflicts(b, ours, theirs)
        merged == [n \in Names |-> MergedBlob(b[n], ours[n], theirs[n])]
        touched == { n \in Names : merged[n] # ours[n] }
        dirty == \E n \in touched \cup bad :
                    \/ st.index[n] # ours[n]
                    \/ st.files[n] # ours[n]
                    \/ n \in st.conflicts
                    \/ merged[n] # NoFile /\ (IsDir(st, n) \/ UnderFile(st, n))
    IN IF dirty THEN [err |-> "MergeError", st |-> st]
       ELSE [err |-> "Ok",
             st |-> [st EXCEPT
                       !.files = [n \in Names |-> IF n \in touched THEN merged[n]
                                                  ELSE st.files[n]],
                       !.dirs = (st.dirs \cup DirsOf(merged)),
                       !.index = [n \in Names |-> IF n \in bad THEN NoFile
                                                  ELSE IF n \in touched THEN merged[n]
                                                  ELSE st.index[n]],
                       !.conflicts = st.conflicts \cup bad]]

\* a hard reset and clean: the working tree made exactly the tree
CheckoutClean(st, tree) ==
    [st EXCEPT !.files = tree, !.dirs = DirsOf(tree), !.index = tree,
               !.conflicts = {}]

\* fetch_from_remote resetting and cleaning the working tree on every fetch,
\* also when there is nothing to merge
FetchAndReset(st, transport_ok) ==
    IF ~st.repo THEN Out("NotInitialized", NoOut, st)
    ELSE IF st.origin = NoRemote THEN Out("RemoteError", NoOut, st)
    ELSE IF ~transport_ok THEN Out("FetchError", NoOut, st)
    ELSE
    LET st1 == [st EXCEPT !.tracking = IF st.remoteTip # 0 THEN st.remoteTip
                                       ELSE st.tracking]
    IN IF st1.head = 0 THEN Out("panic", NoOut, st1)
       ELSE IF st1.tracking = 0 THEN Out("FetchError", NoOut, st1)
       ELSE IF IsAncestor(st1.objs, st1.tracking, st1.head)
            THEN Out("Ok", NoOut, CheckoutClean(st1, Tree(st1, st1.head)))
       ELSE Out("Ok", NoOut,
                CheckoutClean([st1 EXCEPT !.head = st1.tracking],
                              Tree(st1, st1.tracking)))

\* fetch_from_remote(username, token); transport_ok is whether the transfer
\* from the remote succeeds
FetchFromRemote(st, transport_ok) ==
    IF ~st.repo THEN Out("NotInitialized", NoOut, st)
    ELSE IF st.origin = NoRemote THEN Out("RemoteError", NoOut, st)
    ELSE IF ~transport_ok THEN Out("FetchError", NoOut, st)
    ELSE
    LET st1 == [st EXCEPT !.tracking = IF st.remoteTip # 0 THEN st.remoteTip
                                       ELSE st.tracking]
        local_oid == st1.head
        remote_oid == st1.tracking
    IN IF local_oid = 0 THEN Out("panic", NoOut, st1)
       ELSE IF remote_oid = 0 THEN Out("FetchError", NoOut, st1)
       ELSE IF local_oid = remote_oid THEN Out("Ok", NoOut, st1)
       ELSE IF IsAncestor(st1.objs, remote_oid, local_oid)
            THEN Out("Ok", NoOut, st1)   \* up to date: "No merge necessary"
       ELSE IF IsAncestor(st1.objs, local_oid, remote_oid)
            THEN Out("Ok", NoOut,
                     CheckoutForce([st1 EXCEPT !.head = remote_oid],
                                   Tree(st1, remote_oid)))
       ELSE LET m == Merge(st1, remote_oid)
            IN IF m.err = "Ok" THEN Out("Ok", NoOut, m.st)
               ELSE Out("FetchError", NoOut, m.st)

\* push_to_remote(username, token): refs/heads/master:refs/heads/master, not
\* forced, so the remote tip must be reached from the local tip.  accepted is
\* whether the remote takes the update of its branch; a refusal comes back in
\* the per-reference status report, which is read only by a
\* push_update_reference callback: the callbacks hold credentials alone, so
\* remote.push returns Ok and no reference moves
PushToRemote(st, transport_ok, accepted) ==
    IF ~st.repo THEN Out("NotInitialized", NoOut, st)
    ELSE IF st.origin = NoRemote THEN Out("RemoteError", NoOut, st)
    ELSE IF ~transport_ok \/ st.head = 0 THEN Out("PushError", NoOut, st)
    ELSE IF st.remoteTip # 0 /\ ~IsAncestor(st.objs, st.remoteTip, st.head)
         THEN Out("PushError", NoOut, st)
    ELSE IF ~accepted THEN Out("Ok", NoOut, st)
    ELSE Out("Ok", NoOut, [st EXCEPT !.remoteTip = st.head, !.tracking = st.head])

\* add_remote replacing the URI of an origin that is already registered
AddRemoteReplacing(st, uri) ==
    IF ~st.repo THEN Out("NotInitialized", NoOut, st)
    ELSE Out("Ok", NoOut, [st EXCEPT !.origin = uri])

\* add_remote(uri): repo.remote("origin", uri) refuses a name that exists
AddRemoteTo(st, uri) ==
    IF ~st.repo THEN Out("NotInitialized", NoOut, st)
    ELSE IF st.origin # NoRemote THEN Out("RemoteError", NoOut, st)
    ELSE Out("Ok", NoOut, [st EXCEPT !.origin = uri])

\* initialize_repository(): Repository::init on a root that already holds a
\* repository opens it again and succeeds
InitializeRepository(st) == Out("Ok", NoOut, [st EXCEPT !.repo = TRUE])

\* generate_keys writing fresh artifacts on every call
GenerateKeysAnew(st, password, keygen_ok) ==
    Out("Ok", NoOut,
        [st EXCEPT !.keys = [dir |-> TRUE, pub |-> password,
                             key |-> password, pem |-> password]])

\* generate_keys(name, email, password): the artifacts are written only when
\* create_dir made the config directory; keygen_ok is whether
\* pgp::generate_key returns the keys, its Err being returned with `?` after
\* the directory was made
GenerateKeys(st, password, keygen_ok) ==
    IF st.keys.dir THEN Out("Ok", NoOut, st)
    ELSE IF ~keygen_ok
    THEN Out("EncryptationError", NoOut, [st EXCEPT !.keys.dir = TRUE])
    ELSE Out("Ok", NoOut,
             [st EXCEPT !.keys = [dir |-> TRUE, pub |-> password,
                                  key |-> password, pem |-> password]])

-----------------------------------------------------------------------------
(* The directory overrides: src/src/config.rs *)

\* a OnceLock<Option<PathBuf>>: empty, or holding the one value it was given
Unset == <<>>
\* what dirs::home_dir() and dirs::config_dir() answer
SysHome == Some(<< "home" >>)
SysConfig == Some(<< "config" >>)
RepoDir == ".local/share/rspass"

\* OnceLock::set overwriting the value the cell holds
OnceOverwrite(cell, v) == [ok |-> TRUE, cell |-> << v >>]

\* OnceLock::set: refused when the cell holds a value
OnceSet(cell, v) ==
    IF cell = Unset THEN [ok |-> TRUE, cell |-> << v >>]
    ELSE [ok |-> FALSE, cell |-> cell]

\* OnceLock::get_or_init
GetOrInit(cell, v) == IF cell = Unset THEN << v >> ELSE cell

\* get_home_dir / get_config_dir: with the feature the cell is filled from the
\* system directory on first use; without it the cell is only read
GetDir(feature, cell, sys) ==
    IF feature
    THEN [cell |-> GetOrInit(cell, sys), out |-> GetOrInit(cell, sys)[1]]
    ELSE [cell |-> cell, out |-> IF cell = Unset THEN None ELSE cell[1]]

\* set_home_dir / set_config_dir
SetDir(cell, path) ==
    LET r == OnceSet(cell, Some(path))
    IN [cell |-> r.cell, res |-> IF r.ok THEN "Ok" ELSE "ConfigAlreadySet"]

-----------------------------------------------------------------------------
(* The state machine *)

Cur == [repo |-> repo, keys |-> keys, files |-> files, dirs |-> dirs,
        index |-> index, conflicts |-> conflicts, objs |-> objs, head |-> head,
        origin |-> origin, remoteTip |-> remoteTip, tracking |-> tracking]

Call(op) == [op |-> op, name |-> Root, dest |-> Root, secret |-> <<>>,
             password |-> None, metadata |-> None, pass |-> "", full |-> FALSE,
             accepted |-> TRUE, dir |-> None, res |-> "", out |-> <<>>]

\* what is kept of a call: all its arguments when it succeeded, else the
\* operation, the names it was given and whether the transfer went through
Kept(call, o) ==
    IF o.res = "Ok" THEN [call EXCEPT !.res = o.res, !.out = o.out]
    ELSE [Call(call.op) EXCEPT
             !.name = call.name, !.dest = call.dest, !.res = o.res,
             !.full = call.op \in { "fetch", "push" } /\ call.full,
             !.accepted = call.accepted]

\* the call returns o.res and leaves the store o.st
Apply(o, call) ==
    /\ Len(o.st.objs) <= MaxCommits
    /\ repo' = o.st.repo
    /\ keys' = o.st.keys
    /\ files' = o.st.files
    /\ dirs' = o.st.dirs
    /\ index' = o.st.index
    /\ conflicts' = o.st.conflicts
    /\ objs' = o.st.objs
    /\ head' = o.st.head
    /\ origin' = o.st.origin
    /\ remoteTip' = o.st.remoteTip
    /\ tracking' = o.st.tracking
    /\ last' = Kept(call, o)
    /\ UNCHANGED cfgvars

Init ==
    /\ repo = FALSE
    /\ keys = NoKeys
    /\ files = NoTree
    /\ dirs = {}
    /\ index = NoTree
    /\ conflicts = {}
    /\ objs = <<>>
    /\ head = 0
    /\ origin = NoRemote
    /\ remoteTip = 0
    /\ tracking = 0
    /\ last = Call("start")
    /\ homeDir = Unset
    /\ configDir = Unset
    /\ dirsFeature = FALSE
    /\ setCalls = {}

InitRepo == Apply(InitializeRepository(Cur), Call("init"))

GenKeys(password, keygen_ok) ==
    Apply(GenerateKeys(Cur, password, keygen_ok),
          [Call("generate_keys") EXCEPT !.pass = password])

Insert(name, secret, metadata) ==
    Apply(InsertCredential(Cur, name, secret, metadata),
          [Call("insert") EXCEPT !.name = name, !.secret = secret,
                                 !.metadata = metadata])

Get(name, password, full) ==
    Apply(GetCredential(Cur, name, password, full),
          [Call("get") EXCEPT !.name = name, !.pass = password, !.full = full])

\* whether edit_credential gets as far as serialising the new payload
EditSerialises(st, name, gpg_password, password) ==
    /\ OpenError(st, name, TRUE) = "Ok"
    /\ HasRsaPubKey(st.keys) /\ HasPrivateKey(st.keys)
    /\ CanDecrypt(st.files[name], gpg_password, st.keys)
    /\ password.some \/ HasFirstLine(st.files[name].pt)

Edit(name, gpg_password, password, metadata) ==
    \E new_credential \in
          IF EditSerialises(Cur, name, gpg_password, password)
          THEN EditPayloads(files[name].pt, password, metadata)
          ELSE { <<>> } :
        Apply(EditCredential(Cur, name, gpg_password, password, metadata,
                             new_credential),
              [Call("edit") EXCEPT !.name = name, !.pass = gpg_password,
                                   !.password = password, !.metadata = metadata])

Remove(name) ==
    Apply(RemoveCredential(Cur, name), [Call("remove") EXCEPT !.name = name])

\* the paths of the model are Names: a directory is renamed only when the
\* files below it stay inside them
InNames(st, target, destination) ==
    target \in st.dirs =>
        /\ \A n \in Names : IsPrefix(target, n) /\ st.files[n] # NoFile
                               => Rebase(n, target, destination) \in Names
        /\ \A e \in st.dirs : IsPrefix(target, e)
                               => Rebase(e, target, destination) \in Names

Move(target, destination) ==
    /\ InNames(Cur, target, destination)
    /\ Apply(MoveCredential(Cur, target, destination),
             [Call("move") EXCEPT !.name = target, !.dest = destination])

AddRemote(uri) ==
    Apply(AddRemoteTo(Cur, uri), [Call("add_remote") EXCEPT !.pass = uri])

Fetch(transport_ok) ==
    Apply(FetchFromRemote(Cur, transport_ok),
          [Call("fetch") EXCEPT !.full = transport_ok])

Push(transport_ok, accepted) ==
    Apply(PushToRemote(Cur, transport_ok, accepted),
          [Call("push") EXCEPT !.full = transport_ok, !.accepted = accepted])

\* another clone of the remote commits one change of one entry on the remote
\* tip and pushes it
RemoteCommit(name, blob) ==
    LET old == Tree(Cur, remoteTip)
        tree == IF blob = NoFile THEN RemovePath(old, name)
                ELSE AddPath(old, name, blob)
    IN /\ origin # NoRemote
       /\ Len(objs) < MaxCommits
       /\ tree # old
       /\ objs' = Append(objs, NewCommit("remote", remoteTip, tree))
       /\ remoteTip' = Len(objs) + 1
       /\ last' = Call("remote commit")
       /\ UNCHANGED <<repo, keys, files, dirs, index, conflicts, head, origin,
                      tracking>>
       /\ UNCHANGED cfgvars

storevars == <<repo, keys, files, dirs, index, conflicts, objs, head, origin,
               remoteTip, tracking>>

SetHomeDir(path) ==
    LET r == SetDir(homeDir, path)
    IN /\ homeDir' = r.cell
       /\ setCalls' = setCalls \cup { "home" }
       /\ last' = [Call("set_home_dir") EXCEPT !.dir = Some(path), !.res = r.res]
       /\ UNCHANGED <<storevars, configDir, dirsFeature>>

SetConfigDir(path) ==
    LET r == SetDir(configDir, path)
    IN /\ configDir' = r.cell
       /\ setCalls' = setCalls \cup { "config" }
       /\ last' = [Call("set_config_dir") EXCEPT !.dir = Some(path), !.res = r.res]
       /\ UNCHANGED <<storevars, homeDir, dirsFeature>>

GetHomeDir ==
    LET r == GetDir(dirsFeature, homeDir, SysHome)
    IN /\ homeDir' = r.cell
       /\ last' = [Call("get_home_dir") EXCEPT !.dir = r.out, !.res = "Ok"]
       /\ UNCHANGED <<storevars, configDir, dirsFeature, setCalls>>

GetConfigDir ==
    LET r == GetDir(dirsFeature, configDir, SysConfig)
    IN /\ configDir' = r.cell
       /\ last' = [Call("get_config_dir") EXCEPT !.dir = r.out, !.res = "Ok"]
       /\ UNCHANGED <<storevars, homeDir, dirsFeature, setCalls>>

\* get_repo_path(): the home directory, or "." when there is none, joined
\* with the directory of the store
GetRepoPath ==
    LET r == GetDir(dirsFeature, homeDir, SysHome)
        base == IF r.out.some THEN r.out.v ELSE << "." >>
    IN /\ homeDir' = r.cell
       /\ last' = [Call("get_repo_path") EXCEPT
                      !.out = base \o << RepoDir >>, !.res = "Ok"]
       /\ UNCHANGED <<storevars, configDir, dirsFeature, setCalls>>

Passphrases == { "pw1", "pw2" }
Uris == { "uri1", "uri2" }
K == << "k" >>
J == << "j" >>
V == << "v" >>
W == << "w" >>
KX == << "k", EQ, "x" >>
StoreSecrets == { << "s" >> }
ForeignBlobs == { Cipher(<< "r" >>, "pw1", 0) }
FlatNames == { n \in Names : Len(n) = 1 }

\* The credential store and its ledger
Next ==
    \/ InitRepo
    \/ GenKeys("pw1", TRUE)
    \/ \E n \in Names, s \in StoreSecrets : Insert(n, s, None)
    \/ \E n \in Names, g \in Passphrases : Edit(n, g, Some(<< "t" >>), None)
    \/ \E n \in Names : Remove(n)
    \/ \E t \in Names, d \in Names : Move(t, d)

Spec == Init /\ [][Next]_vars

\* The ledger and its remote
SyncNext ==
    \/ InitRepo
    \/ \E p \in Passphrases, ok \in BOOLEAN : GenKeys(p, ok)
    \/ \E n \in FlatNames, s \in StoreSecrets : Insert(n, s, None)
    \/ \E n \in FlatNames : Remove(n)
    \/ \E t \in FlatNames, d \in FlatNames : Move(t, d)
    \/ \E u \in Uris : AddRemote(u)
    \/ \E ok \in BOOLEAN : Fetch(ok)
    \/ \E ok \in BOOLEAN, acc \in BOOLEAN : Push(ok, acc)
    \/ \E n \in FlatNames, b \in ForeignBlobs \cup { NoFile } : RemoteCommit(n, b)

SyncSpec == Init /\ [][SyncNext]_vars

\* One credential and its payload
PayloadSecrets == { <<>>, << "s" >>, << "s", NL, "t" >>, << "k", EQ, "x" >> }
PayloadMetadata ==
    { None, Some(<< << K, V >> >>), Some(<< << K, V >>, << J, W >> >>),
      Some(<< << KX, W >> >>) }
PayloadPasswords == { None, Some(<< "t" >>), Some(<< "t", NL, "k", EQ, "v" >>) }
PayloadChanges ==
    { None, Some(<< << K, None >> >>), Some(<< << K, Some(W) >> >>),
      Some(<< << K, None >>, << K, Some(V) >> >>), Some(<< << KX, None >> >>) }

PayloadNext ==
    \/ InitRepo
    \/ GenKeys("pw1", TRUE)
    \/ \E s \in PayloadSecrets, m \in PayloadMetadata : Insert(<< "a" >>, s, m)
    \/ \E p \in Passphrases, f \in BOOLEAN : Get(<< "a" >>, p, f)
    \/ \E g \in Passphrases, p \in PayloadPasswords, m \in PayloadChanges :
          Edit(<< "a" >>, g, p, m)

PayloadSpec == Init /\ [][PayloadNext]_vars

\* The directory overrides, in either build of the crate.  The three
\* specifications above call no setter, so the cells play no part in them.
Overrides == { << "h1" >>, << "h2" >> }

ConfigInit ==
    /\ repo = FALSE /\ keys = NoKeys /\ files = NoTree /\ dirs = {}
    /\ index = NoTree /\ conflicts = {} /\ objs = <<>> /\ head = 0
    /\ origin = NoRemote /\ remoteTip = 0 /\ tracking = 0
    /\ last = Call("start")
    /\ homeDir = Unset /\ configDir = Unset
    /\ dirsFeature \in BOOLEAN
    /\ setCalls = {}

ConfigNext ==
    \/ \E p \in Overrides : SetHomeDir(p)
    \/ \E p \in Overrides : SetConfigDir(p)
    \/ GetHomeDir
    \/ GetConfigDir
    \/ GetRepoPath

ConfigSpec == ConfigInit /\ [][ConfigNext]_vars

-----------------------------------------------------------------------------
(* Claims *)

StoreOps == { "insert", "edit", "remove", "move" }
Failed(call) == call.res \notin { "Ok", "panic" }

\* C1: after every call the credential files of the working tree are exactly
\* the entries of the tip snapshot, and the set of files changes only together
\* with one new commit.
C1_StoreAndLedgerNeverDiverge ==
    [][ /\ Entries(files') = Entries(Tree(Cur', head'))
        /\ Entries(files') # Entries(files) => Len(objs') = Len(objs) + 1 ]_vars

\* the text of each path, written out
PathText ==
    << "a" >> :> "a" @@ << "b" >> :> "b" @@
    << "a", "c" >> :> "a/c" @@ << "b", "c" >> :> "b/c"
DocumentedMessage(call) ==
    CASE call.op = "insert" -> "add \"" \o PathText[call.name] \o "\""
      [] call.op = "edit" -> "update \"" \o PathText[call.name] \o "\""
      [] call.op = "remove" -> "remove \"" \o PathText[call.name] \o "\""
      [] call.op = "move" ->
            "move " \o PathText[call.name] \o " to " \o PathText[call.dest]

\* C2: a successful insert, edit, remove or move appends exactly one commit,
\* with the documented message, whose parent is the tip before the call (none
\* on an empty ledger), and the tip afterwards is that commit.
C2_OneCommitPerSuccess ==
    [][ (last'.op \in StoreOps /\ last'.res = "Ok") =>
          /\ Len(objs') = Len(objs) + 1
          /\ SubSeq(objs', 1, Len(objs)) = objs
          /\ objs'[Len(objs')].msg = DocumentedMessage(last')
          /\ objs'[Len(objs')].parent = head
          /\ head' = Len(objs') ]_vars

C2_Witness ==
    /\ last.op = "edit" /\ last.res = "Ok"
    /\ head = Len(objs) /\ objs[head].parent # 0

\* C3: a call that returns an error leaves the credential files and the ledger
\* as they were, and the files change exactly when a commit is made.
C3_AtomicWithLedger ==
    [][ last'.op \in StoreOps =>
          /\ Failed(last') =>
                files' = files /\ objs' = objs /\ head' = head /\ index' = index
          /\ (files' # files) <=> (Len(objs') = Len(objs) + 1) ]_vars

\* C4: an insert under the name of an existing credential file returns
\* AlreadyExists and changes neither that file nor the ledger history.
C4_DuplicateInsertRejected ==
    [][ (last'.op = "insert" /\ IsFile(Cur, last'.name)) =>
          /\ last'.res = "AlreadyExists"
          /\ files' = files
          /\ objs' = objs
          /\ head' = head ]_vars

C4_Witness ==
    /\ last.op = "insert" /\ last.res = "AlreadyExists"
    /\ IsFile(Cur, last.name)
    /\ head > 0

\* what get returns: its result kind and its output
Answer(o) == << o.res, o.out >>

\* C7: after a successful move to another name, get of the target answers
\* NotFound and get of the destination answers what get of the target answered
\* before; a move of a target that does not exist (and whose destination
\* directory can be made) answers NotFound.
C7_MoveRelocates ==
    [][ last'.op = "move" =>
          LET t == last'.name
              d == last'.dest
          IN /\ (last'.res = "Ok" /\ t # d) =>
                   \A p \in Passphrases, f \in BOOLEAN :
                      /\ GetCredential(Cur', t, p, f).res = "NotFound"
                      /\ Answer(GetCredential(Cur', d, p, f))
                            = Answer(GetCredential(Cur, t, p, f))
             /\ (~Exists(Cur, t) /\ CreateDirAll(Cur, Parent(d)).err = "Ok") =>
                   last'.res = "NotFound" ]_vars

\* text without a line break
NoBreak(s) == \A i \in 1..Len(s) : s[i] # NL
\* text without '='
NoEq(s) == \A i \in 1..Len(s) : s[i] # EQ
Pairs(metadata) == IF metadata.some THEN metadata.v ELSE <<>>
StartsWith(s, pre) == Len(pre) <= Len(s) /\ SubSeq(s, 1, Len(pre)) = pre

\* the payload is the secret, then exactly one key=value line per pair
RoundTrips(payload, secret, pairs) ==
    LET ls == SplitOn(payload, NL)
    IN /\ ls[1] = secret
       /\ Len(ls) = 1 + Len(pairs)
       /\ \A i \in 1..Len(pairs) : ls[i + 1] = pairs[i][1] \o << EQ >> \o pairs[i][2]

\* C5 as claimed: for any secret and any metadata, get(full=true) after a
\* successful insert returns the secret as first line, then the pairs.
C5_RoundTripAnyText ==
    [][ (last'.op = "insert" /\ last'.res = "Ok") =>
          LET g == GetCredential(Cur', last'.name, keys'.key, TRUE)
          IN g.res = "Ok" /\ RoundTrips(g.out, last'.secret, Pairs(last'.metadata))
      ]_vars

\* C5 as amended: the same, for a secret, keys and values without line break.
C5_RoundTrip ==
    [][ ( /\ last'.op = "insert" /\ last'.res = "Ok"
          /\ NoBreak(last'.secret)
          /\ \A i \in 1..Len(Pairs(last'.metadata)) :
                /\ NoBreak(Pairs(last'.metadata)[i][1])
                /\ NoBreak(Pairs(last'.metadata)[i][2]) ) =>
          LET g == GetCredential(Cur', last'.name, keys'.key, TRUE)
          IN g.res = "Ok" /\ RoundTrips(g.out, last'.secret, Pairs(last'.metadata))
      ]_vars

C5_Witness ==
    /\ last.op = "insert" /\ last.res = "Ok"
    /\ last.secret = << "s" >>
    /\ last.metadata = Some(<< << K, V >>, << J, W >> >>)
    /\ GetCredential(Cur, last.name, keys.key, TRUE).out
          = << "s", NL, "k", EQ, "v", NL, "j", EQ, "w" >>

\* C6: get(full=false) with the right passphrase succeeds on every stored
\* credential and returns the first line of its payload, the empty payload of
\* an empty secret without metadata included.
C6_GetReturnsFirstLine ==
    \A n \in Names :
        (IsFile(Cur, n) /\ CanDecrypt(files[n], keys.key, keys)) =>
            LET g == GetCredential(Cur, n, keys.key, FALSE)
            IN g.res = "Ok" /\ g.out = SplitOn(files[n].pt, NL)[1]

\* the metadata lines of a payload that carry key k
LinesOfKey(payload, k) ==
    LET ls == SplitOn(payload, NL)
    IN { i \in 2..Len(ls) : StartsWith(ls[i], k \o << EQ >>) }

Fetched(call) == call.op = "fetch" /\ call.full /\ repo /\ origin # NoRemote

\* C9: when the local tip is a strict ancestor of the remote tip, fetch moves
\* the local tip to the remote tip and leaves in the working tree exactly the
\* entries of that commit.
C9_FastForwardMatchesExactly ==
    [][ ( /\ Fetched(last')
          /\ head # 0 /\ head # remoteTip
          /\ IsAncestor(objs, head, remoteTip) ) =>
          /\ last'.res = "Ok"
          /\ head' = remoteTip
          /\ Entries(files') = Entries(Tree(Cur, remoteTip))
          /\ \A n \in Entries(files') : files'[n] = Tree(Cur, remoteTip)[n] ]_vars

\* C10: when the local tip is the remote tip, fetch succeeds and changes
\* neither the branch, nor the index, nor the working tree.
C10_FetchOfEqualTipsIsNoOp ==
    [][ (Fetched(last') /\ head # 0 /\ head = remoteTip) =>
          /\ last'.res = "Ok"
          /\ head' = head
          /\ index' = index /\ conflicts' = conflicts
          /\ files' = files /\ dirs' = dirs ]_vars

C10_Witness ==
    /\ last.op = "fetch" /\ last.res = "Ok"
    /\ head # 0 /\ head = remoteTip
    /\ Entries(files) # {}

\* the local and the remote tip have diverged: neither reaches the other
Diverged(st) ==
    /\ st.head # 0 /\ st.remoteTip # 0
    /\ ~IsAncestor(st.objs, st.head, st.remoteTip)
    /\ ~IsAncestor(st.objs, st.remoteTip, st.head)

\* C11: a fetch on diverged tips answers MergeConflict or MergePerformed,
\* never the plain success of a no-op or fast-forward fetch, nor an error.
C11_DivergedFetchIsDistinct ==
    [][ (Fetched(last') /\ Diverged(Cur)) =>
          last'.res \in { "MergeConflict", "MergePerformed" } ]_vars

\* a push that reaches a remote which turns it down: the remote tip is not
\* reached from the local tip, or the remote refuses the update
Rejected(call) ==
    /\ call.op = "push" /\ call.full /\ repo /\ origin # NoRemote /\ head # 0
    /\ \/ remoteTip # 0 /\ ~IsAncestor(objs, remoteTip, head)
       \/ ~call.accepted

\* C12: a push the remote rejects returns PushError and moves neither the
\* local nor the remote branch tip.
C12_RejectedPushFails ==
    [][ Rejected(last') =>
          /\ last'.res = "PushError"
          /\ head' = head
          /\ remoteTip' = remoteTip ]_vars

\* C12, the rejection the client itself detects: the remote tip is not an
\* ancestor of the local tip
C12_NonFastForwardPushFails ==
    [][ ( /\ last'.op = "push" /\ last'.full /\ repo /\ origin # NoRemote
          /\ head # 0 /\ remoteTip # 0
          /\ ~IsAncestor(objs, remoteTip, head) ) =>
          /\ last'.res = "PushError"
          /\ head' = head
          /\ remoteTip' = remoteTip ]_vars

\* the error kinds of the crate (ErrorKind, and the kinds git.rs and
\* config.rs construct)
Taxonomy ==
    { "InitializationError", "PermissionDenied", "NotInitialized", "BadConfig",
      "InsertionError", "EditionError", "RemovalError", "AlreadyExists",
      "EncryptationError", "DecryptationError", "NotFound", "RemoteError",
      "FetchError", "PushError", "ConfigAlreadySet" }
PublicOps ==
    { "init", "generate_keys", "insert", "get", "edit", "remove", "move",
      "add_remote", "fetch", "push" }

\* C13: every public call returns Ok or an error of the taxonomy; none aborts.
C13_EveryCallReturns ==
    last.op \in PublicOps => last.res \in { "Ok" } \cup Taxonomy

\* C14: init on a root that already holds a repository returns
\* InitializationError and leaves the repository and its history as they were.
C14_SecondInitFails ==
    [][ (last'.op = "init" /\ repo) =>
          /\ last'.res = "InitializationError"
          /\ repo' /\ objs' = objs /\ head' = head /\ index' = index
          /\ files' = files /\ origin' = origin ]_vars

\* C15: add_remote registers origin when there is none; when origin is
\* already registered it returns RemoteError and the registered URI stays.
C15_OneOrigin ==
    [][ last'.op = "add_remote" =>
          /\ (repo /\ origin # NoRemote) =>
                last'.res = "RemoteError" /\ origin' = origin
          /\ last'.res = "Ok" =>
                origin = NoRemote /\ origin' = last'.pass /\ origin' \in Uris
      ]_vars

C15_Witness ==
    /\ last.op = "add_remote" /\ last.res = "RemoteError"
    /\ origin \in Uris

\* the three key artifacts are on disk
HasArtifacts(k) == k.pub # NoKey /\ k.key # NoKey /\ k.pem # NoKey

\* C16: generate_keys on existing artifacts returns Ok and leaves the three
\* artifacts as they were, whatever passphrase it is given.
C16_GenerateKeysIdempotent ==
    [][ (last'.op = "generate_keys" /\ HasArtifacts(keys)) =>
          last'.res = "Ok" /\ keys' = keys ]_vars

C16_Witness ==
    /\ last.op = "generate_keys" /\ last.res = "Ok"
    /\ HasArtifacts(keys)
    /\ last.pass # keys.key

Setters == { "set_home_dir", "set_config_dir" }
\* the override a setter is about
Override(op) == IF op = "set_home_dir" THEN "home" ELSE "config"
SysDir(op) == IF op = "set_home_dir" THEN SysHome ELSE SysConfig

\* C17 as claimed: the first set of an override succeeds, every later set of
\* it fails with ConfigAlreadySet, and the getter answers the first value set.
C17_SetOnceFirstSetSucceeds ==
    [][ \A op \in Setters : last'.op = op =>
          LET before == IF op = "set_home_dir" THEN homeDir ELSE configDir
              after == IF op = "set_home_dir" THEN homeDir' ELSE configDir'
          IN /\ Override(op) \notin setCalls =>
                   last'.res = "Ok" /\ after = << last'.dir >>
             /\ Override(op) \in setCalls =>
                   last'.res = "ConfigAlreadySet" /\ after = before
      ]_vars

\* C17 as amended: a set succeeds exactly when the cell of the override holds
\* no value yet (none was set and, in the build with the dirs feature, none
\* was read); a set on a cell that holds a value fails with ConfigAlreadySet;
\* either way the getter afterwards answers the value the cell held first.
C17_SetOnce ==
    [][ \A op \in Setters : last'.op = op =>
          LET before == IF op = "set_home_dir" THEN homeDir ELSE configDir
              after == IF op = "set_home_dir" THEN homeDir' ELSE configDir'
          IN /\ before = Unset =>
                   last'.res = "Ok" /\ after = << last'.dir >>
             /\ before # Unset =>
                   last'.res = "ConfigAlreadySet" /\ after = before
             /\ GetDir(dirsFeature, after, SysDir(op)).out = after[1]
      ]_vars

C17_Witness ==
    /\ last.op = "set_home_dir" /\ last.res = "ConfigAlreadySet"
    /\ last.dir = Some(<< "h2" >>)
    /\ homeDir = << Some(<< "h1" >>) >>
    /\ "home" \in setCalls

\* C18: remove of a name that has no credential file returns NotFound and
\* makes no commit; after a successful remove, get of the name answers
\* NotFound and a new insert under the name succeeds.
C18_RemoveThenGone ==
    [][ last'.op = "remove" =>
          /\ ~IsFile(Cur, last'.name) =>
                last'.res = "NotFound" /\ objs' = objs /\ head' = head
          /\ last'.res = "Ok" =>
                /\ \A p \in Passphrases, f \in BOOLEAN :
                      GetCredential(Cur', last'.name, p, f).res = "NotFound"
                /\ \A s \in StoreSecrets :
                      InsertCredential(Cur', last'.name, s, None).res = "Ok"
      ]_vars

\* the payloads an edit without a new secret may write when only the lines
\* after the first are parsed: the old first line, then the old metadata
\* pairs with the changes applied, in any order
KeepSecretEdits(credential, metadata) ==
    LET data == ApplyChanges(CollectPairs(Tail(Lines(credential)), EmptyMap),
                             Pairs(metadata))
    IN { PushPairs(FirstLine(credential),
                   [i \in DOMAIN o |-> << o[i], data[o[i]] >>]) :
           o \in Orders(data) }

\* C19: an edit without a new secret writes the old first line followed by
\* the old metadata pairs with the changes applied; the secret line is never
\* taken for a metadata pair, also when it holds '='.
C19_SecretLineIsNotMetadata ==
    [][ (last'.op = "edit" /\ last'.res = "Ok" /\ ~last'.password.some) =>
          files'[last'.name].pt
             \in KeepSecretEdits(files[last'.name].pt, last'.metadata) ]_vars

\* C20: after a successful edit the credential file is exactly the sealed new
\* payload, with nothing of the previous content behind it.
C20_EditReplacesContent ==
    [][ (last'.op = "edit" /\ last'.res = "Ok") =>
          \E pt \in EditPayloads(files[last'.name].pt, last'.password,
                                 last'.metadata), rnd \in { 0, 1 } :
             files'[last'.name] = Cipher(pt, keys.pem, rnd) ]_vars

\* an edit that made the payload shorter than the one committed before it
C20_Witness ==
    /\ last.op = "edit" /\ last.res = "Ok"
    /\ head # 0 /\ objs[head].parent # 0
    /\ IsCipher(files[<< "a" >>])
    /\ files[<< "a" >>].key = keys.pem
    /\ Len(files[<< "a" >>].pt) < Len(objs[objs[head].parent].tree[<< "a" >>].pt)

\* C21: whenever generate_keys returns Ok the three key artifacts are on disk
\* afterwards, also when the config directory was there before the call
\* without them.
C21_KeysExistAfterGenerate ==
    [][ (last'.op = "generate_keys" /\ last'.res = "Ok") =>
          /\ HasArtifacts(keys')
          /\ HasRsaPubKey(keys') ]_vars

\* what the claim says of a move from t onto d
Overwrites(t, d) ==
    /\ last'.res = "Ok"
    /\ files'[d] = files[t]
    /\ files'[t] = NoFile
    /\ Cardinality(Entries(files')) = Cardinality(Entries(files)) - 1
    /\ Len(objs') = Len(objs) + 1
    /\ head' = Len(objs')
    /\ Tree(Cur', head')[d] = files[t]
    /\ Tree(Cur', head')[t] = NoFile

\* C22 as claimed: a move of a credential onto a destination that holds a
\* credential succeeds, leaves the target's ciphertext at the destination and
\* no target, one entry less, and makes one commit whose snapshot holds the
\* destination and not the target.
C22_MoveOverwritesAny ==
    [][ ( /\ last'.op = "move"
          /\ IsFile(Cur, last'.name) /\ IsFile(Cur, last'.dest) ) =>
          Overwrites(last'.name, last'.dest) ]_vars

\* C22 as amended: the same for a destination other than the target.
C22_MoveOverwrites ==
    [][ ( /\ last'.op = "move"
          /\ last'.name # last'.dest
          /\ IsFile(Cur, last'.name) /\ IsFile(Cur, last'.dest) ) =>
          Overwrites(last'.name, last'.dest) ]_vars

C22_Witness ==
    /\ last.op = "move" /\ last.res = "Ok"
    /\ last.name = << "a" >> /\ last.dest = << "b", "c" >>
    /\ head = 3
    /\ objs[2].tree[<< "a" >>] # NoFile /\ objs[2].tree[<< "b", "c" >>] # NoFile
    /\ files[<< "b", "c" >>] = objs[2].tree[<< "a" >>]
    /\ files[<< "a" >>] = NoFile

\* a fetch in state st changes nothing but the remote-tracking reference
FetchIsNoOp(st) ==
    LET f == FetchFromRemote(st, TRUE)
    IN /\ f.res = "Ok"
       /\ f.st.head = st.head
       /\ f.st.files = st.files /\ f.st.dirs = st.dirs
       /\ f.st.index = st.index /\ f.st.conflicts = st.conflicts

\* C23: after a successful push the remote tip is the local tip and a fetch
\* issued next is a no-op that succeeds; and a fetch while the local tip is
\* strictly ahead of the remote tip moves neither the local tip nor the
\* working tree.
C23_PushThenFetchIsNoOp ==
    [][ /\ (last'.op = "push" /\ last'.res = "Ok") =>
              remoteTip' = head' /\ FetchIsNoOp(Cur')
        /\ ( /\ Fetched(last')
             /\ remoteTip # 0 /\ head # remoteTip
             /\ IsAncestor(objs, remoteTip, head) ) =>
              /\ last'.res = "Ok"
              /\ head' = head
              /\ files' = files /\ dirs' = dirs ]_vars

====
